---- MODULE Spec2Model ----
(***************************************************************************)
(* Model of book-search/app.py: the corpus build, the interactive loop and *)
(* search_embeddings (query embedding, cosine scoring, candidate window,   *)
(* reranking with fallback).                                               *)
(*                                                                         *)
(* Similarities are exact rationals kept as integers in units of 1/25: the *)
(* vectors of the model have norm 0, 1 or 5, so 25 * cos is an integer.    *)
(* An exception that leaves the process is pc = "crashed", its name in     *)
(* error.                                                                  *)
(***************************************************************************)
EXTENDS Integers, Sequences, FiniteSets, TLC

\* ---------------------------------------------------------------- bounds
\* most book records in a corpus (all authors together)
MaxRecords == 3
\* longest list a reranking response carries
MaxRanked == 2
\* arguments of search_embeddings (app.py:156 passes 5 and 10), scaled down
top_n == 1
initial_matches == 2

\* ---------------------------------------------------------------- values
\* a missing embedding: None and the empty list, both false at line 119
None == <<>>
NA == "N/A"

\* authors.txt, in file order
AuthorNames == <<"A", "B">>
Titles == <<"T1", "T2", "T3", "T4", "T5">>
\* embedding vectors the provider returns (norms 1, 5 and 0)
Vectors == {<<1, 0>>, <<3, 4>>, <<0, 0>>}
\* query vectors the provider returns
QueryVectors == {<<1, 0>>, <<-1, 0>>, <<0, 0>>}

Min(a, b) == IF a < b THEN a ELSE b

\* s[:n]
Take(s, n) == SubSeq(s, 1, Min(n, Len(s)))

RECURSIVE Flatten(_)
Flatten(ss) == IF ss = <<>> THEN <<>> ELSE Head(ss) \o Flatten(Tail(ss))

\* ------------------------------------------------------- generate_embedding
\* What the embedding provider can answer: a transport or HTTP failure
\* (requests.exceptions.RequestException, caught at line 50), a 2xx body whose
\* JSON lacks ["data"][0]["embedding"] (KeyError at line 48, not caught), or a
\* vector.
EmbedResponses(vs) ==
    {[status |-> "RequestException", embedding |-> None],
     [status |-> "BadShape", embedding |-> None]}
    \cup {[status |-> "ok", embedding |-> v] : v \in vs}

NoResponse == [status |-> "none", embedding |-> None]

\* lines 45-52, for the responses that do not raise out of the function
generate_embedding(resp) == IF resp.status = "ok" THEN resp.embedding ELSE None

\* ---------------------------------------------- get_latest_books_with_embeddings
\* lines 62-77: infos is the provider's item list, embs the embedding
\* answers for the items (consulted only for an item with a description)
get_latest_books_with_embeddings(infos, embs) ==
    [i \in 1..Len(infos) |->
        [title |-> infos[i].title,
         description |-> infos[i].description,
         publication_date |-> NA,
         thumbnail_url |-> NA,
         embedding |-> IF infos[i].description # NA
                       THEN generate_embedding(embs[i]) ELSE None]]

Infos(n) == {[i \in 1..n |-> [title |-> Titles[i], description |-> d[i]]] :
                d \in [1..n -> {NA, "D"}]}

BookLists(n) ==
    {get_latest_books_with_embeddings(infos, embs) :
        infos \in Infos(n), embs \in [1..n -> {r \in EmbedResponses(Vectors) : r.status # "BadShape"}]}

RECURSIVE NumRecords(_)
NumRecords(corpus) ==
    IF corpus = <<>> THEN 0 ELSE Len(Head(corpus).books) + NumRecords(Tail(corpus))

\* line 147: one entry per author in names, in file order, budget records at most
RECURSIVE CorporaOf(_, _)
CorporaOf(names, budget) ==
    IF names = <<>> THEN {<<>>}
    ELSE UNION {{<<[author |-> Head(names), books |-> bl]>> \o rest :
                    bl \in BookLists(n), rest \in CorporaOf(Tail(names), budget - n)} :
                n \in 0..budget}

\* authors.txt holds a prefix of AuthorNames
BuiltCorpora ==
    UNION {CorporaOf(SubSeq(AuthorNames, 1, k), MaxRecords) : k \in 0..Len(AuthorNames)}

\* ---------------------------------------------------------- cosine_similarity
Dot(q, p) == q[1] * p[1] + q[2] * p[2]

\* Euclidean norm; sklearn's normalize divides a zero vector by 1
Norm(v) ==
    LET n2 == Dot(v, v)
        r == CHOOSE x \in 0..n2 : x * x <= n2 /\ n2 < (x + 1) * (x + 1)
    IN IF r = 0 THEN 1 ELSE r

\* line 121, in units of 1/25
cosine_similarity(q, p) == (25 * Dot(q, p)) \div (Norm(q) * Norm(p))

\* ------------------------------------------------------------ search_embeddings
HasNonZeroEmbedding(book) == book.embedding # None /\ Dot(book.embedding, book.embedding) # 0

\* line 119: `if book_embedding:` is false for None and for an empty list
HasEmbedding(book) == book.embedding # None

\* lines 123-130: the candidate is a new dict holding copies of the fields
Match(author, book, similarity) ==
    [author |-> author,
     title |-> book.title,
     description |-> book.description,
     publication_date |-> book.publication_date,
     thumbnail_url |-> book.thumbnail_url,
     similarity |-> similarity]

AppendAnyway(author, book, q) ==
    <<Match(author, book,
            IF HasEmbedding(book) THEN cosine_similarity(q, book.embedding) ELSE 0)>>

\* lines 118-130: what one book adds to matches
MatchesOfBook(author, book, q) ==
    IF HasEmbedding(book)
    THEN <<Match(author, book, cosine_similarity(q, book.embedding))>>
    ELSE <<>>

\* lines 115-130: matches before the sort, in data.items() order
ScoredMatches(corpus, q) ==
    Flatten([a \in 1..Len(corpus) |->
        Flatten([b \in 1..Len(corpus[a].books) |->
            MatchesOfBook(corpus[a].author, corpus[a].books[b], q)])])

\* x goes behind every element that is not smaller: equal keys keep their order
RECURSIVE InsertDesc(_, _)
InsertDesc(x, s) ==
    IF s = <<>> THEN <<x>>
    ELSE IF Head(s).similarity >= x.similarity
         THEN <<Head(s)>> \o InsertDesc(x, Tail(s))
         ELSE <<x>> \o s

RECURSIVE SortFrom(_, _)
SortFrom(done, rest) ==
    IF rest = <<>> THEN done ELSE SortFrom(InsertDesc(Head(rest), done), Tail(rest))

RECURSIVE InsertBeforeEqual(_, _)
InsertBeforeEqual(x, s) ==
    IF s = <<>> THEN <<x>>
    ELSE IF Head(s).similarity > x.similarity
         THEN <<Head(s)>> \o InsertBeforeEqual(x, Tail(s))
         ELSE <<x>> \o s

RECURSIVE SortFromUnstable(_, _)
SortFromUnstable(done, rest) ==
    IF rest = <<>> THEN done
    ELSE SortFromUnstable(InsertBeforeEqual(Head(rest), done), Tail(rest))

SortedUnstable(ms) == SortFromUnstable(<<>>, ms)

\* line 133: sorted(matches, key=similarity, reverse=True), a stable sort
SortedBySimilarity(ms) == SortFrom(<<>>, ms)

\* line 133: the candidate window
Candidates(corpus, q, window) == Take(SortedBySimilarity(ScoredMatches(corpus, q)), window)

\* --------------------------------------------------------------- rerank_results
\* the i-th entry of a response carries the i-th highest score
ScoreAt(i) == 100 - i

RankedLists(k) ==
    UNION {{[i \in 1..n |-> [index |-> ix[i], relevance_score |-> ScoreAt(i)]] :
               ix \in [1..n -> 0..k]} : n \in 0..MaxRanked}

\* What the reranking provider can answer to a request with k documents: a
\* transport or HTTP failure (caught at line 102), a 2xx body without
\* ["results"] (KeyError at line 97, not caught), or a list of entries whose
\* index is any of 0..k (k itself is out of range).
RerankResponses(k) ==
    {[status |-> "RequestException", results |-> <<>>],
     [status |-> "BadShape", results |-> <<>>]}
    \cup {[status |-> "ok", results |-> r] : r \in RankedLists(k)}

NoRanking == [status |-> "none", results |-> <<>>]

\* line 98 raises IndexError when an index is out of range
IndexInRange(results, ranked) == \A i \in 1..Len(ranked) : ranked[i].index < Len(results)

\* lines 99-100: reranked[i] is the dict results[index]; a dict named twice is
\* one object, so it ends with the score written last
LastFor(ranked, i) ==
    CHOOSE j \in 1..Len(ranked) :
        /\ ranked[j].index = ranked[i].index
        /\ \A l \in 1..Len(ranked) : ranked[l].index = ranked[i].index => l <= j

WithScore(item, score) ==
    [f \in DOMAIN item \cup {"relevance_score"} |->
        IF f = "relevance_score" THEN score ELSE item[f]]

RerankedCopies(results, ranked) ==
    [i \in 1..Len(ranked) |->
        WithScore(results[ranked[i].index + 1], ranked[i].relevance_score)]

\* lines 98-101
Reranked(results, ranked) ==
    [i \in 1..Len(ranked) |->
        WithScore(results[ranked[i].index + 1], ranked[LastFor(ranked, i)].relevance_score)]

\* lines 94-104: the exception that leaves the function, or None
rerank_raises(results, resp) ==
    IF resp.status = "BadShape" THEN "KeyError"
    ELSE IF resp.status = "ok" /\ ~IndexInRange(results, resp.results) THEN "IndexError"
    ELSE "none"

\* lines 94-104: the value returned when nothing is raised
rerank_results(results, resp, n) ==
    IF resp.status = "RequestException" THEN Take(results, n)
    ELSE Reranked(results, resp.results)

\* line 100 writes to the candidate dict: the book dict it was copied from
\* (lines 123-130) stays as loaded
BookScored(book, score) == WithScore(book, score)

BookAfterRerank(book, score) == book

\* the loaded mapping once rerank_results has written its scores (lines 99-100)
DataAfterRerank(corpus, res) ==
    [a \in 1..Len(corpus) |->
        [author |-> corpus[a].author,
         books |-> [b \in 1..Len(corpus[a].books) |->
            LET book == corpus[a].books[b]
                hits == {i \in 1..Len(res) : /\ res[i].author = corpus[a].author
                                             /\ res[i].title = book.title}
            IN IF hits = {} THEN book
               ELSE BookAfterRerank(book, res[CHOOSE i \in hits : TRUE].relevance_score)]]]

\* ------------------------------------------------------------------ persistence
NoFile == [exists |-> FALSE, content |-> <<>>]

\* lines 136-139
save_to_json(corpus) == [exists |-> TRUE, content |-> corpus]

\* lines 21-26, for a file that exists
load_books(file) == file.content

\* ------------------------------------------------------------------------ state
VARIABLES
    pc,           \* where the process is
    error,        \* the exception that ended the process, or "none"
    books_json,   \* the file books.json
    books_data,   \* books_data of __main__ (line 143 or 147)
    data,         \* data of the running search_embeddings call (line 107)
    embedResp,    \* the answer to the query's embedding request
    embedCalls,   \* embedding requests sent for the current query
    matches,      \* the candidate list handed to rerank_results (line 134)
    rerankResp,   \* the answer to the query's reranking request
    rerankCalls,  \* reranking requests sent for the current query
    results       \* what search_embeddings returned (line 156)

vars == <<pc, error, books_json, books_data, data, embedResp, embedCalls,
          matches, rerankResp, rerankCalls, results>>

queryVars == <<data, embedResp, embedCalls, matches, rerankResp, rerankCalls, results>>

NoQuery ==
    /\ data' = <<>>
    /\ embedResp' = NoResponse
    /\ embedCalls' = 0
    /\ matches' = <<>>
    /\ rerankResp' = NoRanking
    /\ rerankCalls' = 0
    /\ results' = <<>>

\* books.json is absent, or is what an earlier run built and saved
Init ==
    /\ pc = "start"
    /\ error = "none"
    /\ books_json \in {NoFile} \cup {save_to_json(c) : c \in BuiltCorpora}
    /\ books_data = <<>>
    /\ data = <<>>
    /\ embedResp = NoResponse
    /\ embedCalls = 0
    /\ matches = <<>>
    /\ rerankResp = NoRanking
    /\ rerankCalls = 0
    /\ results = <<>>

\* lines 143-145, books.json exists
LoadExisting ==
    /\ pc = "start"
    /\ books_json.exists
    /\ books_data' = load_books(books_json)
    /\ pc' = "prompt"
    /\ UNCHANGED <<error, books_json, queryVars>>

\* lines 145-148: every provider call of the build answers
BuildCorpus ==
    /\ pc = "start"
    /\ ~books_json.exists
    /\ \E c \in BuiltCorpora :
        /\ books_data' = c
        /\ books_json' = save_to_json(c)
    /\ pc' = "prompt"
    /\ UNCHANGED <<error, queryVars>>

\* lines 145-148: the metadata request fails (line 59, HTTPError) or an
\* embedding answer lacks its fields (line 48, KeyError); neither is caught
BuildFails ==
    /\ pc = "start"
    /\ ~books_json.exists
    /\ \E e \in {"HTTPError", "KeyError"} : error' = e
    /\ pc' = "crashed"
    /\ UNCHANGED <<books_json, books_data, queryVars>>

\* lines 151-154: the exit keyword
Exit ==
    /\ pc = "prompt"
    /\ pc' = "exited"
    /\ UNCHANGED <<error, books_json, books_data, queryVars>>

\* lines 151, 156, 107-108: a query is read, search_embeddings loads the file
\* and sends the embedding request
ReadQuery ==
    /\ pc = "prompt"
    /\ data' = load_books(books_json)
    /\ embedCalls' = embedCalls + 1
    /\ pc' = "embedding"
    /\ UNCHANGED <<error, books_json, books_data, embedResp, matches, rerankResp,
                   rerankCalls, results>>

\* lines 50-52, 109-111
EmbedFails ==
    /\ pc = "embedding"
    /\ \E r \in EmbedResponses(QueryVectors) :
        /\ r.status = "RequestException"
        /\ embedResp' = r
        /\ generate_embedding(r) = None
    /\ results' = <<>>
    /\ pc' = "display"
    /\ UNCHANGED <<error, books_json, books_data, data, embedCalls, matches,
                   rerankResp, rerankCalls>>

\* line 48: the KeyError leaves generate_embedding, search_embeddings and the loop
EmbedBadShape ==
    /\ pc = "embedding"
    /\ \E r \in EmbedResponses(QueryVectors) :
        /\ r.status = "BadShape"
        /\ embedResp' = r
    /\ error' = "KeyError"
    /\ pc' = "crashed"
    /\ UNCHANGED <<books_json, books_data, data, embedCalls, matches, rerankResp,
                   rerankCalls, results>>

\* lines 46-49, 113-134, 86-95: the corpus is scored and the reranking request sent
EmbedOk ==
    /\ pc = "embedding"
    /\ \E r \in EmbedResponses(QueryVectors) :
        /\ r.status = "ok"
        /\ embedResp' = r
        /\ matches' = Candidates(data, generate_embedding(r), initial_matches)
    /\ rerankCalls' = rerankCalls + 1
    /\ pc' = "reranking"
    /\ UNCHANGED <<error, books_json, books_data, data, embedCalls, rerankResp, results>>

\* lines 102-104
RerankFallback ==
    /\ pc = "reranking"
    /\ \E r \in RerankResponses(Len(matches)) :
        /\ r.status = "RequestException"
        /\ rerankResp' = r
        /\ results' = rerank_results(matches, r, top_n)
    /\ pc' = "display"
    /\ UNCHANGED <<error, books_json, books_data, data, embedResp, embedCalls,
                   matches, rerankCalls>>

\* lines 97-98: KeyError or IndexError, not caught by line 102
RerankRaises ==
    /\ pc = "reranking"
    /\ \E r \in RerankResponses(Len(matches)) :
        /\ rerank_raises(matches, r) # "none"
        /\ rerankResp' = r
        /\ error' = rerank_raises(matches, r)
    /\ pc' = "crashed"
    /\ UNCHANGED <<books_json, books_data, data, embedResp, embedCalls, matches,
                   rerankCalls, results>>

\* lines 96-101
RerankOk ==
    /\ pc = "reranking"
    /\ \E r \in RerankResponses(Len(matches)) :
        /\ r.status = "ok"
        /\ rerank_raises(matches, r) = "none"
        /\ rerankResp' = r
        /\ results' = rerank_results(matches, r, top_n)
        /\ data' = DataAfterRerank(data, rerank_results(matches, r, top_n))
    /\ pc' = "display"
    /\ UNCHANGED <<error, books_json, books_data, embedResp, embedCalls, matches,
                   rerankCalls>>

\* line 165: format(book.get('relevance_score', 'N/A'), '.4f') raises
\* ValueError for the string 'N/A'
DisplayRaises(res) == res # <<>> /\ "relevance_score" \notin DOMAIN res[1]

\* lines 158-168, then back to line 151
Display ==
    /\ pc = "display"
    /\ ~DisplayRaises(results)
    /\ pc' = "prompt"
    /\ NoQuery
    /\ UNCHANGED <<error, books_json, books_data>>

\* lines 158-165: the ValueError is not caught
DisplayFails ==
    /\ pc = "display"
    /\ DisplayRaises(results)
    /\ error' = "ValueError"
    /\ pc' = "crashed"
    /\ UNCHANGED <<books_json, books_data, queryVars>>

Next ==
    \/ LoadExisting
    \/ BuildCorpus
    \/ BuildFails
    \/ Exit
    \/ ReadQuery
    \/ EmbedFails
    \/ EmbedBadShape
    \/ EmbedOk
    \/ RerankFallback
    \/ RerankRaises
    \/ RerankOk
    \/ Display
    \/ DisplayFails

Spec == Init /\ [][Next]_vars

TypeOK ==
    /\ pc \in {"start", "prompt", "embedding", "reranking", "display", "exited", "crashed"}
    /\ error \in {"none", "HTTPError", "KeyError", "IndexError", "ValueError"}
    /\ embedCalls \in 0..1
    /\ rerankCalls \in 0..1

\* ----------------------------------------------------------------- properties
\* search_embeddings has returned to line 156
Returned == pc = "display" \/ (pc = "crashed" /\ error = "ValueError")

\* an exception left search_embeddings
Raised == pc = "crashed" /\ embedCalls = 1 /\ error # "ValueError"

QueryOver == Returned \/ Raised

\* the query was embedded and the corpus scored
Scored == embedResp.status = "ok"

\* the book records of a corpus as <<author, book>> pairs
Records(corpus) ==
    UNION {{<<corpus[a].author, corpus[a].books[b]>> : b \in 1..Len(corpus[a].books)} :
              a \in 1..Len(corpus)}

\* item is the candidate made from the record rec
IsFrom(item, rec) == item.author = rec[1] /\ item.title = rec[2].title

ZeroNorm(v) == Dot(v, v) = 0

\* item without its relevance_score
Unscored(item) == [f \in DOMAIN item \ {"relevance_score"} |-> item[f]]

\* C1: whenever the query-embedding request has failed (provider error or
\* malformed response), search_embeddings has returned the empty sequence,
\* no reranking request was sent and exactly one embedding request was sent.
C1_EmbedFailureReturnsEmpty ==
    embedResp.status \in {"RequestException", "BadShape"} =>
        /\ Returned
        /\ results = <<>>
        /\ rerankCalls = 0
        /\ embedCalls = 1

\* C2: whenever the embedding succeeded and the reranking request has failed
\* (non-2xx status or malformed body), search_embeddings has returned exactly
\* the first top_n candidates, and the result is non-empty when some record
\* of the corpus has an embedding.
C2_RerankFailureFallsBack ==
    (Scored /\ rerankResp.status \in {"RequestException", "BadShape"}) =>
        /\ Returned
        /\ results = Take(matches, top_n)
        /\ (\E rec \in Records(data) : rec[2].embedding # None) => results # <<>>

\* C3: during and after a query on an empty corpus no reranking request has
\* been sent, and whatever search_embeddings has returned is the empty
\* sequence.
C3_EmptyCorpusNoRerank ==
    (embedCalls = 1 /\ NumRecords(data) = 0) =>
        /\ rerankCalls = 0
        /\ Returned => results = <<>>

\* C4: whatever the providers answered, the sequence search_embeddings
\* returned has at most top_n entries and at most as many entries as the
\* corpus has book records.
C4_ResultBounded ==
    Returned => (Len(results) <= top_n /\ Len(results) <= NumRecords(data))

\* C5: no candidate and no returned result is made from a book record whose
\* embedding is null, on the rerank path and on the fallback path.
C5_NullEmbeddingNeverReturned ==
    \A rec \in Records(data) :
        rec[2].embedding = None =>
            /\ \A i \in 1..Len(matches) : ~IsFrom(matches[i], rec)
            /\ \A i \in 1..Len(results) : ~IsFrom(results[i], rec)

C5_Witness ==
    /\ pc = "display"
    /\ rerankResp.status = "ok"
    /\ results # <<>>
    /\ \E rec \in Records(data) : rec[2].embedding = None
    /\ \E rec \in Records(data) : rec[2].embedding # None

C7_NoQueryIsFatal == ~(pc = "crashed" /\ embedCalls = 1)

\* the scored records in corpus order, before the sort
FullScored == ScoredMatches(data, embedResp.embedding)

\* position of full[j] in the descending order that keeps ties in place
RankOf(full, j) ==
    1 + Cardinality({k \in 1..Len(full) :
            \/ full[k].similarity > full[j].similarity
            \/ full[k].similarity = full[j].similarity /\ k < j})

\* C8: when the reranking request is sent, the candidate list handed to the
\* reranker is the scored records in
\* descending similarity, equal similarities in corpus order, cut to
\* initial_matches entries.
C8_CandidatesSortedStableTruncated ==
    pc = "reranking" =>
        LET full == FullScored IN
        /\ Len(matches) = Min(initial_matches, Len(full))
        /\ \A j \in 1..Len(full) :
            RankOf(full, j) <= initial_matches => matches[RankOf(full, j)] = full[j]

\* a tie inside the window and a record cut off by the window
C8_Witness ==
    /\ pc = "reranking"
    /\ Len(FullScored) > initial_matches
    /\ Len(matches) = initial_matches
    /\ matches[1].similarity = matches[2].similarity
    /\ matches[1].author # matches[2].author

C10_QueriesLeaveCorpusUnchanged ==
    [][pc # "start" =>
        /\ books_json' = books_json
        /\ books_data' = books_data
        /\ pc' \in {"embedding", "reranking", "display"} =>
            /\ data' = books_data
            /\ \A rec \in Records(data') : "relevance_score" \notin DOMAIN rec[2]]_vars

C10_Witness ==
    /\ pc = "display"
    /\ rerankResp.status = "ok"
    /\ results # <<>>
    /\ "relevance_score" \in DOMAIN results[1]
    /\ data = books_data
    /\ books_json = save_to_json(books_data)

====
